---- MODULE Spec2Model ----
(***************************************************************************)
(* AgentGuard (dist/agent-guard.esm.js, v1.2.0): the budget ledger and the *)
(* enforcement controller.  Money is counted in cents (1 = $0.01), except  *)
(* where the cost is computed from a payload and the price table: prices   *)
(* are then per 1K tokens in units of 10^-5 dollars, and costs, totals and *)
(* limits in units of 10^-8 dollars (tokens * price).                      *)
(*                                                                         *)
(* The module state of the library (config, totalCost, isKilled,           *)
(* redisClient, apiCallsLog) is the state of the model.  An observed call  *)
(* is split where the code suspends: the synchronous part of an            *)
(* interceptor up to the call of incrementBudget (Observe), the replies of *)
(* the shared store (RedisReply), and the continuation that appends to the *)
(* call log and evaluates the limit (RunContinuation).  Continuations of   *)
(* resolved promises run in FIFO order (the microtask queue); the caller's *)
(* own operations may be interleaved anywhere between them.                *)
(***************************************************************************)
EXTENDS Integers, Sequences, FiniteSets, TLC

\* ------------------------------------------------------------------ bounds
MaxCalls == 2          \* observed calls per behaviour of Spec
MaxSharedCalls == 2    \* observed calls per behaviour of SharedSpec
MaxScenarioCalls == 5  \* observed calls per behaviour of SpecNotify
MaxControllers == 2    \* controllers obtained from init() in one process
MaxTwoCalls == 1       \* observed calls per behaviour of TwoSpec
MaxAttrCalls == 1      \* payloads given to the interceptors in AttrSpec
MaxStoreCalls == 2     \* increments of the shared counter in StoreSpec
MaxConnCalls == 1      \* observed calls per behaviour of ConnSpec
MaxHookCalls == 2      \* observed calls per behaviour of HookSpec
MaxUnits == 3          \* largest unit count given to calculateCost
MaxSetterCalls == 2    \* observed calls per behaviour of SetterSpec
MaxLimitCalls == 2     \* payloads given to the interceptors in LimitSpec
MaxCopyCalls == 2      \* observed calls per behaviour of CopySpec
MaxSessionCalls == 2   \* observed calls per behaviour of SessionSpec
MaxWrapCalls == 2      \* fetch calls per behaviour of WrapSpec
MaxOrderCalls == 3     \* observed calls per behaviour of OrderSpec

Costs == {0, 500}        \* attributed cost of an observed call (cents)
Limits == {500, 1000}         \* values given to init({limit}) / setLimit
Modes == {"throw", "notify", "kill"}
Sources == {"console", "fetch", "axios"}

\* the runtimes the library can be loaded in: what `original` captured
Runtimes ==
  { [hasExit |-> TRUE,  hasWindow |-> FALSE, hasFetch |-> TRUE],    \* node
    [hasExit |-> FALSE, hasWindow |-> TRUE,  hasFetch |-> TRUE],    \* browser
    [hasExit |-> FALSE, hasWindow |-> FALSE, hasFetch |-> FALSE] }  \* bare

\* incrementBudget(0.01) of the catch blocks of wrapFetch/handleAxiosResponse
FallbackCost == 1

\* let config = { limit: 10, ... }
DefaultLimit == 1000

\* init({ limit: Infinity }): no finite total reaches it
Infinity == 2147483647

VARIABLES
  limit,        \* config.limit
  mode,         \* config.mode
  enabled,      \* config.enabled
  webhook,      \* config.webhook is set
  runtime,      \* original.exit / window / original.fetch exist
  totalCost,    \* let totalCost
  isKilled,     \* let isKilled
  redisClient,  \* redisClient is non-null (shared mode)
  apiCallsLog,  \* const apiCallsLog
  redisTotal,   \* the store's counter agentguard:budget
  redisOps,     \* incrementBudget calls that await the store
  microtasks,   \* continuations of settled incrementBudget promises (FIFO)
  resetPending, \* reset() awaits redisClient.del
  exitTimer,    \* setTimeout(() => original.exit(1), 100) is pending
  exited,       \* the process has exited
  exitStatus,   \* the status it exited with
  reloaded,     \* window.location.reload() has run
  \* history of the current session (init or last reset onwards)
  calls,        \* number of calls observed so far (bounds the model)
  sumPassed,    \* sum of the costs passed to incrementBudget (local mode)
  stops,        \* the stop actions executed by emergencyStop
  crossings,    \* evaluations that saw newTotal >= config.limit
  incrWarnings, \* 'Redis increment failed' warnings
  storeFailed,  \* a store operation of incrementBudget has failed
  everReset,    \* reset() has completed at least once
  \* the rest of the module state and of the environment
  redisConn,    \* config.redis and what redisClient.connect() did at init
  redisKey,     \* the store's key agentguard:budget: present, time to live
  controllers,  \* number of controller objects returned by init() so far
  API_COSTS,    \* let API_COSTS: the in-memory price table
  priceCache,   \* the file .agentguard-cache.json
  webhookPosts, \* the POSTs of sendWebhook: in flight, delivered, failed
  resetResult,  \* how the promise of the last reset() settled
  lastCall,     \* what the interceptor made of the last payload it was given
  input,        \* arguments of the pure function under study
  output        \* its result

vars == <<limit, mode, enabled, webhook, runtime, totalCost, isKilled,
          redisClient, apiCallsLog, redisTotal, redisOps, microtasks,
          resetPending, exitTimer, exited, exitStatus, reloaded,
          calls, sumPassed, stops, crossings, incrWarnings, storeFailed,
          everReset, redisConn, redisKey, controllers, API_COSTS, priceCache,
          webhookPosts, resetResult, lastCall, input, output>>

configVars == <<limit, mode, enabled, webhook, runtime, redisClient>>
exitVars == <<exitTimer, exited, exitStatus, reloaded>>
sessionVars == <<stops, crossings, incrWarnings, storeFailed, everReset>>
priceVars == <<API_COSTS, priceCache>>
pureVars == <<input, output>>
\* what the ledger's own operations never touch
storeVars == <<redisConn, redisKey>>
frameVars == <<storeVars, controllers, priceVars, pureVars>>
\* the ledger, its configuration and its history
ledgerVars == <<configVars, totalCost, isKilled, apiCallsLog, redisTotal,
                redisOps, microtasks, resetPending, exitVars, calls,
                sumPassed, sessionVars>>

\* ------------------------------------------------------- pure definitions

\* `totalCost += cost` of incrementBudget
LocalAdd_overwrite(total, cost) == cost
LocalAdd(total, cost) == total + cost

\* `if (newTotal >= config.limit)` of the three interception paths
LimitReached_strict(newTotal, lim) == newTotal > lim
LimitReached(newTotal, lim) == newTotal >= lim

\* `if (isKilled) return;` of emergencyStop
ShouldFire_always(killed) == TRUE
ShouldFire(killed) == ~killed

\* the mode's branch of emergencyStop: what the stop action does
StopEffects_notifyThrows(m, rt) ==
  IF m = "notify" \/ m = "throw" THEN {"throw_limit"}
  ELSE IF m = "kill"
    THEN IF rt.hasExit THEN {"exit_timer"}
         ELSE IF rt.hasWindow THEN {"alert_reload"}
         ELSE {"throw_killed"}
  ELSE {}
StopEffects_noExit(m, rt) ==
  IF m = "notify" THEN {"continue"}
  ELSE IF m = "throw" THEN {"throw_limit"}
  ELSE IF m = "kill"
    THEN IF rt.hasWindow THEN {"alert_reload"}
         ELSE {"throw_killed"}
  ELSE {}
StopEffects(m, rt) ==
  IF m = "notify" THEN {"continue"}
  ELSE IF m = "throw" THEN {"throw_limit"}
  ELSE IF m = "kill"
    THEN IF rt.hasExit THEN {"exit_timer"}
         ELSE IF rt.hasWindow THEN {"alert_reload"}
         ELSE {"throw_killed"}
  ELSE {}

\* the error emergencyStop throws, if any
ThrownError(eff) ==
  IF "throw_limit" \in eff THEN "AGENTGUARD_LIMIT_EXCEEDED"
  ELSE IF "throw_killed" \in eff THEN "AGENTGUARD_KILLED"
  ELSE "none"

\* where an error thrown by emergencyStop ends up: the .catch of the
\* console interceptor, or the catch block of wrapFetch/handleAxiosResponse
CatchSite(src) ==
  IF src = "console" THEN "console.catch"
  ELSE IF src = "fetch" THEN "fetch.catch"
  ELSE "axios.catch"

\* sendWebhook dispatches the POST
WebhookDispatched(hook, rt) == hook /\ rt.hasFetch

\* sendWebhook(message) up to its await: one more POST is in flight
sendWebhook(posts, hook, rt) ==
  IF WebhookDispatched(hook, rt)
    THEN [posts EXCEPT !.inFlight = @ + 1]
    ELSE posts

\* the POST resolves: sendWebhook returns
WebhookDelivered(posts) ==
  [posts EXCEPT !.inFlight = @ - 1, !.delivered = @ + 1]

\* the POST rejects: the catch block of sendWebhook logs 'Webhook failed'
WebhookCaught_retry(posts) == [posts EXCEPT !.failed = @ + 1]
WebhookCaught(posts) ==
  [posts EXCEPT !.inFlight = @ - 1, !.failed = @ + 1]

\* const estimatedSavings = Math.max(0, (config.limit * 5) - totalCost)
EstimatedSavings(lim, total) ==
  IF lim * 5 - total > 0 THEN lim * 5 - total ELSE 0

\* `return newTotal;` of incrementBudget after the store has answered: the
\* total the store returned, not the local counter
ReturnedTotal_local(storeTotal, localTotal) == localTotal
ReturnedTotal(storeTotal, localTotal) == storeTotal

\* getCost: () => redisClient ? null : totalCost   ({} stands for null)
getCost == IF redisClient THEN {} ELSE {totalCost}

\* getLogs: () => [...apiCallsLog]
getLogs == apiCallsLog
getLimit == limit

Running == ~exited /\ ~reloaded

\* ------------------------------------------------------------ price table

\* one entry of the table: { input, output }, price per 1K tokens
Price(i, o) == [input |-> i, output |-> o]

\* the literal the module starts with
InitialPrices ==
  ("gpt-4" :> Price(3000, 6000)) @@
  ("gpt-4-turbo" :> Price(1000, 3000)) @@
  ("gpt-3.5-turbo" :> Price(150, 200)) @@
  ("gpt-4o" :> Price(250, 1000)) @@
  ("gpt-4o-mini" :> Price(15, 60)) @@
  ("claude-3-opus" :> Price(1500, 7500)) @@
  ("claude-3-sonnet" :> Price(300, 1500)) @@
  ("claude-3-haiku" :> Price(25, 125)) @@
  ("claude-3-5-sonnet" :> Price(300, 1500)) @@
  ("default" :> Price(1000, 3000))

\* const fallbackPrices of updatePrices
FallbackPrices ==
  ("gpt-4" :> Price(3000, 6000)) @@
  ("gpt-4-turbo" :> Price(1000, 3000)) @@
  ("gpt-3.5-turbo" :> Price(150, 200)) @@
  ("gpt-4o" :> Price(250, 1000)) @@
  ("gpt-4o-mini" :> Price(15, 60)) @@
  ("claude-3-opus" :> Price(1500, 7500)) @@
  ("claude-3-sonnet" :> Price(300, 1500)) @@
  ("claude-3-haiku" :> Price(25, 125)) @@
  ("claude-3-5-sonnet" :> Price(300, 1500)) @@
  ("claude-3-5-haiku" :> Price(100, 500))

\* { ...a, ...b }: the entries of b win
Spread(a, b) == b @@ a

\* a JavaScript number that is either an integer amount or NaN
Num(n) == [nan |-> FALSE, value |-> n]
NaN == [nan |-> TRUE, value |-> 0]

\* names every plain object inherits from Object.prototype: API_COSTS[name]
\* is a function (or the prototype), not undefined
ObjectPrototypeKeys ==
  {"constructor", "toString", "valueOf", "hasOwnProperty", "isPrototypeOf",
   "propertyIsEnumerable", "toLocaleString", "__proto__"}

\* const costs = API_COSTS[model] || API_COSTS['default'].  own is FALSE when
\* the lookup found an inherited member, whose .input/.output are undefined
PriceEntry(table, model) ==
  IF model \in DOMAIN table
    THEN [own |-> TRUE, price |-> table[model]]
  ELSE IF model \in ObjectPrototypeKeys
    THEN [own |-> FALSE, price |-> Price(0, 0)]
  ELSE [own |-> TRUE, price |-> table["default"]]

\* calculateCost(model, inputTokens, outputTokens) over the current table;
\* (tokens / 1000) * price per 1K, in units of 10^-8 dollars
calculateCost(model, inputTokens, outputTokens) ==
  LET costs == PriceEntry(API_COSTS, model)
  IN IF costs.own
       THEN Num(inputTokens * costs.price.input
                + outputTokens * costs.price.output)
       ELSE NaN

\* ------------------------------------------------------- token extraction

\* A text-like property value: undefined ("absent"), a string of so many
\* words (text.split(/\s+/).length) and characters, an array of items
\* (joined: the text items joined by ''), or any other truthy value such as
\* a number or a plain object ("other").
NoText == [kind |-> "absent", words |-> 0, chars |-> 0, items |-> <<>>]
Str(w, c) == [kind |-> "string", words |-> w, chars |-> c, items |-> <<>>]
Parts(items, w, c) == [kind |-> "array", words |-> w, chars |-> c, items |-> items]
OtherValue == [kind |-> "other", words |-> 0, chars |-> 0, items |-> <<>>]
Item(type, text) == [type |-> type, text |-> text]

\* !text is false
TruthyText(t) == t.kind \in {"array", "other"} \/ (t.kind = "string" /\ t.chars > 0)

Est(n) == [raised |-> FALSE, n |-> n]
EstRaised == [raised |-> TRUE, n |-> 0]

\* estimateTokens(text, model) where no tokenizer package is installed:
\* Math.ceil((words * 1.3) + (chars * 0.25)); text.split raises a TypeError
\* when text is truthy and not a string
estimateTokens(text) ==
  IF ~TruthyText(text) THEN Est(0)
  ELSE IF text.kind # "string" THEN EstRaised
  ELSE Est((26 * text.words + 5 * text.chars + 19) \div 20)

\* an optional number is the empty set (undefined) or a singleton
Falsy(v) == v = {} \/ v = {0}
OrElse(a, b) == IF Falsy(a) THEN b ELSE a
Val(v) == CHOOSE n \in v : TRUE

Usage(pt, it, ct, ot) ==
  [prompt_tokens |-> pt, input_tokens |-> it,
   completion_tokens |-> ct, output_tokens |-> ot]

Tokens(i, o) == [raised |-> FALSE, input |-> i, output |-> o]
Raised == [raised |-> TRUE, input |-> 0, output |-> 0]

\* usage.prompt_tokens || usage.input_tokens || 0 (and the same for output)
UsageTokens(u) ==
  Tokens(Val(OrElse(u.prompt_tokens, OrElse(u.input_tokens, {0}))),
         Val(OrElse(u.completion_tokens, OrElse(u.output_tokens, {0}))))

\* { input: 0, output: estimateTokens(text, model) }
OutputOnly(e) == IF e.raised THEN Raised ELSE Tokens(0, e.n)

\* { input: Math.round(t * a/10), output: Math.round(t * b/10) }
Split(e, a, b) ==
  IF e.raised THEN Raised
  ELSE Tokens((a * e.n + 5) \div 10, (b * e.n + 5) \div 10)

\* message.content.forEach: text items are estimated, an image counts 85
\* tokens, an audio item 100
RECURSIVE ItemTokens(_)
ItemTokens(items) ==
  IF items = <<>> THEN Est(0)
  ELSE LET it == Head(items)
           rest == ItemTokens(Tail(items))
           here == IF it.type = "text" THEN estimateTokens(it.text)
                   ELSE IF it.type = "image_url" THEN Est(85)
                   ELSE IF it.type = "audio" THEN Est(100)
                   ELSE Est(0)
       IN IF here.raised \/ rest.raised THEN EstRaised
          ELSE Est(here.n + rest.n)

\* totalTokens of the multimodal branch
MessageTokens(content) ==
  IF content.kind = "string" THEN estimateTokens(content)
  ELSE IF content.kind = "array" THEN ItemTokens(content.items)
  ELSE Est(0)

\* A payload as the interceptors see it.  type is what typeof/null tests
\* tell; model and usage are optional; choices is absent, [] ("empty"), or
\* has a first element that carries a delta, a message or neither ("plain"),
\* with that delta's/message's content; json is JSON.stringify(payload)
\* cut to 1000 characters, which raises when the payload is circular.
Payload(type, model, usage, choices, content, text, json, circular) ==
  [type |-> type, model |-> model, usage |-> usage, choices |-> choices,
   content |-> content, text |-> text, json |-> json, circular |-> circular]
Choices(kind, content) == [kind |-> kind, content |-> content]
NoChoices == Choices("absent", NoText)

\* the body of the try block of extractTokensFromResponse
TryExtract(response) ==
  IF response.type \in {"null", "undefined"} THEN Raised
  ELSE IF response.usage # {} THEN UsageTokens(Val(response.usage))
  ELSE IF response.choices.kind = "delta"
    THEN OutputOnly(estimateTokens(response.choices.content))
  ELSE IF response.content.kind = "array"
    THEN OutputOnly(estimateTokens(Str(response.content.words,
                                       response.content.chars)))
  ELSE IF response.choices.kind = "message"
    THEN Split(MessageTokens(response.choices.content), 2, 8)
  ELSE IF TruthyText(response.text)
    THEN Split(estimateTokens(response.text), 3, 7)
  ELSE IF TruthyText(response.content)
    THEN Split(estimateTokens(response.content), 3, 7)
  ELSE IF response.circular THEN Raised
  ELSE Split(estimateTokens(response.json), 3, 7)

\* extractTokensFromResponse: the catch block answers 50/50
extractTokensFromResponse_rethrow(response) == TryExtract(response)
extractTokensFromResponse(response) ==
  LET r == TryExtract(response)
  IN IF r.raised THEN Tokens(50, 50) ELSE r

\* data?.model || dflt: null, undefined, a missing model and '' give dflt
ModelOr(data, dflt) ==
  IF data.type \in {"null", "undefined"} \/ data.model = {} \/ data.model = {""}
    THEN dflt
    ELSE Val(data.model)

\* detectModel(url, data): the url names the provider
detectModel(provider, data) ==
  IF provider = "openai" THEN ModelOr(data, "gpt-3.5-turbo")
  ELSE IF provider = "anthropic" THEN ModelOr(data, "claude-3-haiku")
  ELSE "default"

\* the test of the console interceptor: an object that is not null and has
\* a truthy choices, content or usage
ConsoleRecognises_anyObject(arg) == arg.type \in {"object", "array"}
ConsoleRecognises(arg) ==
  /\ arg.type \in {"object", "array"}
  /\ \/ arg.choices.kind # "absent"
     \/ TruthyText(arg.content)
     \/ arg.usage # {}

\* ------------------------------------------------------------------- init

\* redisClient.expire(key, 86400)
Ttl == 86400

\* the budget key of the store: absent, or present with or without a time
\* to live.  INCRBYFLOAT creates an absent key without one and leaves the
\* one of a present key; EXPIRE sets it on a present key.
NoKey == [exists |-> FALSE, ttl |-> {}]
KeyIncremented(k) == [exists |-> TRUE, ttl |-> k.ttl]
KeyExpires(k, seconds) == IF k.exists THEN [k EXCEPT !.ttl = {seconds}] ELSE k

\* initRedis: redisClient is non-null afterwards iff config.redis is set and
\* connect() succeeded (the catch block sets it back to null)
RedisConns == {"none", "connected", "failed"}
initRedis_keepClient(conn) == conn # "none"
initRedis(conn) == conn = "connected"

\* the cache file: absent ("none"), unreadable ("corrupt"), written less
\* ("fresh") or more ("stale") than an hour ago; "nofs" when the runtime has
\* no fs module
EmptyPrices == [m \in {} |-> Price(0, 0)]
Cache(state, prices) == [state |-> state, prices |-> prices]
NoFs == Cache("nofs", EmptyPrices)

\* what one download gave: fetched is the flag fetchedPrices
Fetched(prices) == [fetched |-> TRUE, prices |-> prices]
NotFetched == [fetched |-> FALSE, prices |-> EmptyPrices]
Refresh(first, second, write) == [first |-> first, second |-> second, write |-> write]
Offline == Refresh(NotFetched, NotFetched, TRUE)

\* updatePrices() run to completion on a table and a cache file, o telling
\* how the downloads and the cache write went: the new table, the new cache
\* file, and whether the outer catch block warned
updatePrices(table, cache, hasFetch, o) ==
  IF ~hasFetch
    THEN [table |-> table, cache |-> cache, warned |-> FALSE]
  ELSE IF cache.state = "corrupt"
    THEN [table |-> table, cache |-> cache, warned |-> TRUE]
  ELSE IF cache.state = "fresh"
    THEN [table |-> Spread(table, cache.prices), cache |-> cache,
          warned |-> FALSE]
  ELSE
    LET fetched == IF o.first.fetched THEN o.first.prices
                   ELSE IF o.second.fetched THEN o.second.prices
                   ELSE EmptyPrices
        updated == Spread(FallbackPrices, fetched)
        merged == Spread(table, updated)
    IN IF cache.state = "nofs"
         THEN [table |-> merged, cache |-> cache, warned |-> FALSE]
       ELSE IF o.write
         THEN [table |-> merged, cache |-> Cache("fresh", updated),
               warned |-> FALSE]
       ELSE [table |-> merged, cache |-> cache, warned |-> TRUE]

NoPosts == [inFlight |-> 0, delivered |-> 0, failed |-> 0]

NoPayload ==
  Payload("undefined", {}, {}, NoChoices, NoText, NoText, NoText, FALSE)
NoCall ==
  [src |-> "none", payload |-> NoPayload, recognised |-> FALSE,
   threw |-> FALSE, model |-> "default", tokens |-> Tokens(0, 0), cost |-> 0]

\* the counters and records of the module as it is loaded
InitLedger(lims, modes) ==
  /\ limit \in lims
  /\ mode \in modes
  /\ enabled = TRUE
  /\ webhook \in BOOLEAN
  /\ runtime \in Runtimes
  /\ totalCost = 0
  /\ isKilled = FALSE
  /\ apiCallsLog = <<>>
  /\ redisTotal = 0
  /\ redisOps = {}
  /\ microtasks = <<>>
  /\ resetPending = FALSE
  /\ exitTimer = FALSE
  /\ exited = FALSE
  /\ exitStatus = 0
  /\ reloaded = FALSE
  /\ calls = 0
  /\ sumPassed = 0
  /\ stops = <<>>
  /\ crossings = 0
  /\ incrWarnings = 0
  /\ storeFailed = FALSE
  /\ everReset = FALSE
  /\ controllers = 1
  /\ webhookPosts = NoPosts
  /\ resetResult = "none"
  /\ lastCall = NoCall
  /\ input = <<>>
  /\ output = <<>>

\* `await initRedis()` of init
InitStore(conns) ==
  /\ redisConn \in conns
  /\ redisClient = initRedis(redisConn)
  /\ redisKey = NoKey

\* `await updatePrices()` of init where there is no cache file and the
\* downloads fail
InitPrices ==
  /\ priceCache = NoFs
  /\ API_COSTS = updatePrices(InitialPrices, NoFs, runtime.hasFetch, Offline).table

InitWith(lims, modes, shared) ==
  /\ InitLedger(lims, modes)
  /\ InitStore({c \in {"none", "connected"} : initRedis(c) \in shared})
  /\ InitPrices

\* init() without a redis option
Init == InitWith(Limits, Modes, {FALSE})

\* init({redis}) with a connected store client
SharedInit == InitWith(Limits, Modes, {TRUE})

\* ---------------------------------------------------------------- actions

\* incrementBudget(cost) up to its first suspension.  Local mode: the add and
\* the return happen at once, the caller's continuation is queued.  Shared
\* mode: the call awaits redisClient.incrByFloat.  role is "call" when a
\* continuation logs and evaluates, "fallback" for
\* incrementBudget(0.01).then(() => updateDisplay()).  q is the microtask
\* queue the continuation is appended to.
incrementBudget_lifo(cost, id, src, role, q) ==
  /\ sumPassed' = IF redisClient THEN sumPassed ELSE sumPassed + cost
  /\ IF redisClient
       THEN /\ redisOps' = redisOps \cup
                 {[id |-> id, src |-> src, cost |-> cost, role |-> role,
                   stage |-> "incr", newTotal |-> 0,
                   afterFailure |-> storeFailed]}
            /\ totalCost' = totalCost
            /\ microtasks' = q
       ELSE /\ totalCost' = LocalAdd(totalCost, cost)
            /\ redisOps' = redisOps
            /\ microtasks' =
                 IF role = "call"
                   THEN <<[id |-> id, src |-> src, cost |-> cost,
                           newTotal |-> LocalAdd(totalCost, cost)]>> \o q
                   ELSE q
incrementBudget(cost, id, src, role, q) ==
  /\ sumPassed' = IF redisClient THEN sumPassed ELSE sumPassed + cost
  /\ IF redisClient
       THEN /\ redisOps' = redisOps \cup
                 {[id |-> id, src |-> src, cost |-> cost, role |-> role,
                   stage |-> "incr", newTotal |-> 0,
                   afterFailure |-> storeFailed]}
            /\ totalCost' = totalCost
            /\ microtasks' = q
       ELSE /\ totalCost' = LocalAdd(totalCost, cost)
            /\ redisOps' = redisOps
            /\ microtasks' =
                 IF role = "call"
                   THEN Append(q, [id |-> id, src |-> src, cost |-> cost,
                                   newTotal |-> LocalAdd(totalCost, cost)])
                   ELSE q

\* An API-like payload is observed by console.log, the fetch wrapper or the
\* axios/HTTP handler: model, tokens and cost are computed and
\* incrementBudget(cost) is called.  config.enabled is not consulted.
ObserveStep(src, cost, maxc) ==
  /\ Running
  /\ calls < maxc
  /\ calls' = calls + 1
  /\ incrementBudget(cost, calls + 1, src, "call", microtasks)
  /\ UNCHANGED <<configVars, isKilled, apiCallsLog, redisTotal, resetPending,
                 exitVars, sessionVars, frameVars, webhookPosts, resetResult>>

\* the same, of a call whose payload is not looked into
Observe(src, cost, maxc) ==
  /\ ObserveStep(src, cost, maxc)
  /\ UNCHANGED lastCall

\* what the interceptor of src computes from a payload: the console
\* interceptor takes the model from the payload, handleAxiosResponse from the
\* response data and the url, wrapFetch from the request body and the url
Attribution(src, provider, req, p) ==
  LET model == IF src = "console" THEN ModelOr(p, "default")
               ELSE IF src = "fetch" THEN detectModel(provider, req)
               ELSE detectModel(provider, p)
      tokens == extractTokensFromResponse(p)
  IN [model |-> model, tokens |-> tokens,
      cost |-> calculateCost(model, tokens.input, tokens.output)]

\* the interceptor looks into the payload at all: the console interceptor
\* wants an API-like object, the HTTP wrappers a url of a provider
Recognises(src, provider, p) ==
  IF src = "console" THEN ConsoleRecognises(p)
  ELSE provider \in {"openai", "anthropic"}

\* console.log(p), or an HTTP response with data p, passes the interceptor:
\* a recognised payload is attributed (ObserveStep), any other is passed on.
\* An exception leaving extractTokensFromResponse would leave the
\* interceptor before incrementBudget.
Intercept(src, provider, req, p, maxc) ==
  LET a == Attribution(src, provider, req, p)
      seen == Recognises(src, provider, p)
  IN /\ Running
     /\ calls < maxc
     /\ ~a.cost.nan
     /\ lastCall' =
          IF seen
            THEN [src |-> src, payload |-> p, recognised |-> TRUE,
                  threw |-> a.tokens.raised, model |-> a.model,
                  tokens |-> a.tokens, cost |-> a.cost.value]
            ELSE [NoCall EXCEPT !.src = src, !.payload = p]
     /\ IF seen /\ ~a.tokens.raised
          THEN ObserveStep(src, a.cost.value, maxc)
          ELSE /\ calls' = calls + 1
               /\ UNCHANGED <<configVars, totalCost, isKilled, apiCallsLog,
                              redisTotal, redisOps, microtasks, resetPending,
                              exitVars, sumPassed, sessionVars, frameVars,
                              webhookPosts, resetResult>>

\* wrapFetch: clonedResponse.json() or JSON.parse(options.body) throws; the
\* catch block adds the flat estimate, nothing is logged or evaluated.
ObserveUnparseable(maxc) ==
  /\ Running
  /\ calls < maxc
  /\ calls' = calls + 1
  /\ incrementBudget(FallbackCost, calls + 1, "fetch", "fallback", microtasks)
  /\ UNCHANGED <<configVars, isKilled, apiCallsLog, redisTotal, resetPending,
                 exitVars, sessionVars, frameVars, webhookPosts, resetResult,
                 lastCall>>

\* The continuation of incrementBudget(cost): apiCallsLog.push, then
\* `if (newTotal >= config.limit) emergencyStop(...)`.  An error thrown by
\* emergencyStop is caught where the continuation runs: by .catch (console),
\* or by the catch block that calls incrementBudget(0.01) (fetch, axios).
RunContinuation ==
  /\ Running
  /\ microtasks # <<>>
  /\ LET t == Head(microtasks)
         reached == LimitReached(t.newTotal, limit)
         fire == reached /\ ShouldFire(isKilled)
         eff == StopEffects(mode, runtime)
         thrown == ThrownError(eff)
     IN
       /\ apiCallsLog' = Append(apiCallsLog, [cost |-> t.cost, source |-> t.src])
       /\ crossings' = IF t.newTotal >= limit THEN crossings + 1 ELSE crossings
       /\ IF fire
            THEN /\ isKilled' = TRUE
                 /\ stops' = Append(stops,
                      [mode |-> mode, effects |-> eff, error |-> thrown,
                       sink |-> IF thrown = "none" THEN "none" ELSE CatchSite(t.src),
                       webhook |-> WebhookDispatched(webhook, runtime),
                       total |-> t.newTotal, limit |-> limit,
                       reportedCost |-> totalCost,
                       at |-> Len(apiCallsLog) + 1])
                 /\ webhookPosts' = sendWebhook(webhookPosts, webhook, runtime)
                 /\ exitTimer' = (exitTimer \/ "exit_timer" \in eff)
                 /\ reloaded' = ("alert_reload" \in eff)
                 /\ IF thrown # "none" /\ t.src # "console"
                      THEN incrementBudget(FallbackCost, t.id, t.src, "fallback",
                                           Tail(microtasks))
                      ELSE /\ microtasks' = Tail(microtasks)
                           /\ UNCHANGED <<totalCost, redisOps, sumPassed>>
            ELSE /\ microtasks' = Tail(microtasks)
                 /\ UNCHANGED <<isKilled, stops, exitTimer, reloaded,
                                totalCost, redisOps, sumPassed, webhookPosts>>
       /\ UNCHANGED <<configVars, redisTotal, resetPending, exited, exitStatus,
                      calls, incrWarnings, storeFailed, everReset, frameVars,
                      resetResult, lastCall>>

\* the catch block of incrementBudget ends in `return totalCost`: the promise
\* resolves and the caller's .then continuation is queued on q; an error
\* leaving incrementBudget would reach .catch, which only warns
AfterCaught_rethrown(op, total, q) == q
AfterCaught(op, total, q) ==
  IF op.role = "call"
    THEN Append(q, [id |-> op.id, src |-> op.src, cost |-> op.cost,
                    newTotal |-> total])
    ELSE q

\* The store answers an awaited operation of incrementBudget.  incrByFloat
\* succeeds: the shared counter grows and expire is awaited.  expire
\* succeeds: newTotal (the store's total) is returned.  Either fails: the
\* catch block warns, adds the cost to totalCost and returns totalCost.
RedisReply(op, ok) ==
  /\ Running
  /\ op \in redisOps
  /\ LET done(total) ==
           IF op.role = "call"
             THEN Append(microtasks, [id |-> op.id, src |-> op.src,
                                      cost |-> op.cost, newTotal |-> total])
             ELSE microtasks
     IN
       IF ok
         THEN IF op.stage = "incr"
                THEN /\ redisTotal' = redisTotal + op.cost
                     /\ redisKey' = KeyIncremented(redisKey)
                     /\ redisOps' = (redisOps \ {op}) \cup
                          {[op EXCEPT !.stage = "expire",
                                      !.newTotal = redisTotal + op.cost]}
                     /\ UNCHANGED <<microtasks, totalCost, incrWarnings, storeFailed>>
                ELSE /\ redisOps' = redisOps \ {op}
                     /\ redisKey' = KeyExpires(redisKey, Ttl)
                     /\ microtasks' = done(ReturnedTotal(op.newTotal, totalCost))
                     /\ UNCHANGED <<redisTotal, totalCost, incrWarnings, storeFailed>>
         ELSE /\ redisOps' = redisOps \ {op}
              /\ incrWarnings' = incrWarnings + 1
              /\ storeFailed' = TRUE
              /\ totalCost' = LocalAdd(totalCost, op.cost)
              /\ microtasks' = AfterCaught(op, LocalAdd(totalCost, op.cost),
                                           microtasks)
              /\ UNCHANGED <<redisTotal, redisKey>>
  /\ UNCHANGED <<configVars, isKilled, apiCallsLog, resetPending, exitVars,
                 calls, sumPassed, stops, crossings, everReset, redisConn,
                 controllers, priceVars, pureVars,
                 webhookPosts, resetResult, lastCall>>

\* what reset() does once it is past the store: totalCost = 0;
\* apiCallsLog.length = 0.  isKilled is not touched.  A new session starts.
ResetLocal_dropOldest ==
  /\ totalCost' = 0
  /\ apiCallsLog' = IF apiCallsLog = <<>> THEN <<>> ELSE Tail(apiCallsLog)
  /\ sumPassed' = 0
  /\ stops' = <<>>
  /\ crossings' = 0
  /\ incrWarnings' = 0
  /\ storeFailed' = FALSE
  /\ everReset' = TRUE
ResetLocal ==
  /\ totalCost' = 0
  /\ apiCallsLog' = <<>>
  /\ sumPassed' = 0
  /\ stops' = <<>>
  /\ crossings' = 0
  /\ incrWarnings' = 0
  /\ storeFailed' = FALSE
  /\ everReset' = TRUE

\* reset() in local mode runs to completion without suspending; in shared
\* mode it first awaits redisClient.del
Reset ==
  /\ Running
  /\ ~resetPending
  /\ IF redisClient
       THEN /\ resetPending' = TRUE
            /\ UNCHANGED <<totalCost, apiCallsLog, sumPassed, sessionVars,
                           resetResult>>
       ELSE /\ ResetLocal
            /\ resetResult' = "resolved"
            /\ UNCHANGED resetPending
  /\ UNCHANGED <<configVars, isKilled, redisTotal, redisOps, microtasks,
                 exitVars, calls, frameVars, webhookPosts, lastCall>>

\* try { await redisClient.del(...) } catch (e) { console.warn(...) }: how
\* reset() goes on after the store's reply
ResetOutcome_uncaught(delOk) == IF delOk THEN "resolved" ELSE "rejected"
ResetOutcome(delOk) == IF delOk THEN "resolved" ELSE "warned"

\* redisClient.del settles (a failure is caught and warned about), then the
\* local state is cleared; an error that left reset() would skip the clearing
ResetReply(ok) ==
  /\ Running
  /\ resetPending
  /\ resetPending' = FALSE
  /\ redisTotal' = IF ok THEN 0 ELSE redisTotal
  /\ redisKey' = IF ok THEN NoKey ELSE redisKey
  /\ resetResult' = ResetOutcome(ok)
  /\ IF ResetOutcome(ok) = "rejected"
       THEN UNCHANGED <<totalCost, apiCallsLog, sumPassed, sessionVars>>
       ELSE ResetLocal
  /\ UNCHANGED <<configVars, isKilled, redisOps, microtasks, exitVars, calls,
                 redisConn, controllers, priceVars, pureVars, webhookPosts,
                 lastCall>>

\* disable: config.enabled = false; totalCost = 0; apiCallsLog.length = 0
Disable ==
  /\ Running
  /\ enabled' = FALSE
  /\ totalCost' = 0
  /\ apiCallsLog' = <<>>
  /\ UNCHANGED <<limit, mode, webhook, runtime, redisClient, isKilled,
                 redisTotal, redisOps, microtasks, resetPending, exitVars,
                 calls, sumPassed, sessionVars, frameVars, webhookPosts,
                 resetResult, lastCall>>

\* setLimit: (newLimit) => { config.limit = newLimit; }
SetLimit_additive(l) ==
  /\ Running
  /\ limit' = limit + l
  /\ UNCHANGED <<mode, enabled, webhook, runtime, redisClient, totalCost,
                 isKilled, apiCallsLog, redisTotal, redisOps, microtasks,
                 resetPending, exitVars, calls, sumPassed, sessionVars,
                 frameVars, webhookPosts, resetResult, lastCall>>
SetLimit(l) ==
  /\ Running
  /\ limit # l
  /\ limit' = l
  /\ UNCHANGED <<mode, enabled, webhook, runtime, redisClient, totalCost,
                 isKilled, apiCallsLog, redisTotal, redisOps, microtasks,
                 resetPending, exitVars, calls, sumPassed, sessionVars,
                 frameVars, webhookPosts, resetResult, lastCall>>

\* setMode: (newMode) => { config.mode = newMode; }
SetMode(m) ==
  /\ Running
  /\ mode # m
  /\ mode' = m
  /\ UNCHANGED <<limit, enabled, webhook, runtime, redisClient, totalCost,
                 isKilled, apiCallsLog, redisTotal, redisOps, microtasks,
                 resetPending, exitVars, calls, sumPassed, sessionVars,
                 frameVars, webhookPosts, resetResult, lastCall>>

\* the timer set by emergencyStop in kill mode fires: original.exit(1)
ExitTimerFires ==
  /\ Running
  /\ exitTimer
  /\ exitTimer' = FALSE
  /\ exited' = TRUE
  /\ exitStatus' = 1
  /\ UNCHANGED <<configVars, totalCost, isKilled, apiCallsLog, redisTotal,
                 redisOps, microtasks, resetPending, reloaded, calls,
                 sumPassed, sessionVars, frameVars, webhookPosts, resetResult,
                 lastCall>>

\* init(options) is called again in the process of a controller without a
\* store: config = { ...config, ...options }; nothing more when
\* config.enabled is false; else updatePrices() runs (no cache file, no
\* network), the interceptors are installed again and another controller
\* object over the same module state is returned
InitAgain(opts) ==
  /\ Running
  /\ redisConn = "none"
  /\ controllers < MaxControllers
  /\ limit' = IF opts.limit = {} THEN limit ELSE Val(opts.limit)
  /\ mode' = IF opts.mode = {} THEN mode ELSE Val(opts.mode)
  /\ IF enabled
       THEN LET r == updatePrices(API_COSTS, priceCache, runtime.hasFetch,
                                  Offline)
            IN /\ controllers' = controllers + 1
               /\ API_COSTS' = r.table
               /\ priceCache' = r.cache
       ELSE UNCHANGED <<controllers, priceVars>>
  /\ UNCHANGED <<enabled, webhook, runtime, redisClient, storeVars, totalCost,
                 isKilled, apiCallsLog, redisTotal, redisOps, microtasks,
                 resetPending, exitVars, calls, sumPassed, sessionVars,
                 webhookPosts, resetResult, lastCall, pureVars>>

\* updatePrices() of a controller, or of init
UpdatePrices(o) ==
  /\ Running
  /\ LET r == updatePrices(API_COSTS, priceCache, runtime.hasFetch, o)
     IN /\ API_COSTS' = r.table
        /\ priceCache' = r.cache
  /\ UNCHANGED <<ledgerVars, storeVars, controllers, webhookPosts,
                 resetResult, lastCall, pureVars>>

\* an hour passes since the cache file was written
CacheAges ==
  /\ priceCache.state = "fresh"
  /\ priceCache' = [priceCache EXCEPT !.state = "stale"]
  /\ UNCHANGED <<ledgerVars, storeVars, controllers, API_COSTS, webhookPosts,
                 resetResult, lastCall, pureVars>>

\* calculateCost is applied to the current table
ApplyCalculateCost(model, inputTokens, outputTokens) ==
  /\ input' = [model |-> model, inputTokens |-> inputTokens,
               outputTokens |-> outputTokens]
  /\ output' = calculateCost(model, inputTokens, outputTokens)
  /\ UNCHANGED <<ledgerVars, storeVars, controllers, priceVars, webhookPosts,
                 resetResult, lastCall>>

\* the POST of sendWebhook settles
WebhookReply(ok) ==
  /\ Running
  /\ webhookPosts.inFlight > 0
  /\ webhookPosts' = IF ok THEN WebhookDelivered(webhookPosts)
                     ELSE WebhookCaught(webhookPosts)
  /\ UNCHANGED <<ledgerVars, frameVars, resetResult, lastCall>>

\* another process of the deployment increments the shared counter
ForeignIncrement(cost, maxc) ==
  /\ redisClient
  /\ calls < maxc
  /\ calls' = calls + 1
  /\ redisTotal' = redisTotal + cost
  /\ redisKey' = KeyExpires(KeyIncremented(redisKey), Ttl)
  /\ UNCHANGED <<configVars, totalCost, isKilled, apiCallsLog, redisOps,
                 microtasks, resetPending, exitVars, sumPassed, sessionVars,
                 redisConn, controllers, priceVars, pureVars, webhookPosts,
                 resetResult, lastCall>>

\* --------------------------------------------------------- specifications

ObserveCall == \E src \in Sources, cost \in Costs : Observe(src, cost, MaxCalls)
ObserveBadFetch == ObserveUnparseable(MaxCalls)
StoreReply == \E op \in redisOps, ok \in BOOLEAN : RedisReply(op, ok)
ResetSettles == \E ok \in BOOLEAN : ResetReply(ok)
ChangeLimit == \E l \in Limits : SetLimit(l)
ChangeMode == \E m \in Modes : SetMode(m)

Next ==
  \/ ObserveCall
  \/ ObserveBadFetch
  \/ RunContinuation
  \/ Reset
  \/ Disable
  \/ ChangeLimit
  \/ ChangeMode
  \/ ExitTimerFires

\* local mode: one process, one in-memory ledger
Spec == Init /\ [][Next]_vars

\* setTimeout callbacks run once the event loop is idle: the exit timer is
\* not starved
LiveSpec == Spec /\ WF_vars(ExitTimerFires)

SharedObserveCall ==
  \E src \in Sources, cost \in Costs : Observe(src, cost, MaxSharedCalls)
SharedObserveBadFetch == ObserveUnparseable(MaxSharedCalls)

SharedNext ==
  \/ SharedObserveCall
  \/ SharedObserveBadFetch
  \/ RunContinuation
  \/ StoreReply
  \/ Reset
  \/ ResetSettles
  \/ ExitTimerFires

\* shared mode: the ledger is the store's counter, configuration as given
\* to init
SharedSpec == SharedInit /\ [][SharedNext]_vars

\* the scenario of the warn-only mode: limit $10, mode notify, every observed
\* call costs $3
NotifyInit == InitWith({1000}, {"notify"}, {FALSE})
NotifyObserveCall == \E src \in Sources : Observe(src, 300, MaxScenarioCalls)

NotifyNext ==
  \/ NotifyObserveCall
  \/ RunContinuation

NotifySpec == NotifyInit /\ [][NotifyNext]_vars

\* a controller initialised in kill mode whose mode is left alone
KillInit == InitWith(Limits, {"kill"}, {FALSE})

KillNext ==
  \/ ObserveCall
  \/ ObserveBadFetch
  \/ RunContinuation
  \/ Reset
  \/ Disable
  \/ ChangeLimit
  \/ ExitTimerFires

KillSpec == KillInit /\ [][KillNext]_vars /\ WF_vars(ExitTimerFires)

\* two controllers in one process: init() is called a second time
InitOptions ==
  [limit : {{}} \cup {{l} : l \in Limits}, mode : {{}} \cup {{m} : m \in Modes}]
TwoInit == InitWith(Limits, Modes, {FALSE})
SecondInit == \E opts \in InitOptions : InitAgain(opts)
TwoObserveCall ==
  \E src \in Sources, cost \in Costs : Observe(src, cost, MaxTwoCalls)

TwoNext ==
  \/ SecondInit
  \/ TwoObserveCall
  \/ RunContinuation
  \/ Reset
  \/ Disable
  \/ ChangeLimit
  \/ ChangeMode
  \/ ExitTimerFires

TwoSpec == TwoInit /\ [][TwoNext]_vars

\* payloads of tests/edge-cases.test.js and of the fixtures
Obj(model, usage, choices, content, json) ==
  Payload("object", model, usage, choices, content, NoText, json, FALSE)
UsagePayload ==
  Obj({"gpt-4"}, {Usage({1000}, {}, {1000}, {})}, NoChoices, NoText, Str(1, 80))
NegativePayload ==
  Obj({"gpt-4"}, {Usage({-100}, {}, {-50}, {})}, NoChoices, NoText, Str(1, 78))
Payloads ==
  { Payload("null", {}, {}, NoChoices, NoText, NoText, Str(1, 4), FALSE),
    NoPayload,
    Payload("string", {}, {}, NoChoices, NoText, NoText, Str(2, 12), FALSE),
    Obj({}, {}, NoChoices, NoText, Str(1, 2)),
    UsagePayload,
    NegativePayload,
    Payload("object", {"gpt-4"}, {Usage({10}, {}, {10}, {})}, NoChoices,
            NoText, NoText, NoText, TRUE),
    Payload("object", {}, {}, Choices("empty", NoText), NoText, NoText,
            NoText, TRUE),
    Obj({"gpt-3.5-turbo"}, {}, Choices("message", Str(2, 13)), NoText,
        Str(2, 76)),
    Obj({}, {}, NoChoices, OtherValue, Str(1, 15)) }

\* what JSON.parse can give an HTTP wrapper
HttpPayloads == {p \in Payloads : p.type # "undefined" /\ ~p.circular}

\* the request body of a fetch call
RequestBody == Obj({"gpt-4"}, {}, NoChoices, NoText, Str(1, 17))

\* the controller whose payloads are looked into: limit $0.10, mode notify
AttrInit == InitWith({10000000}, {"notify"}, {FALSE})
ConsoleLog ==
  \E p \in Payloads : Intercept("console", "none", NoPayload, p, MaxAttrCalls)
HttpResponse ==
  \E src \in {"fetch", "axios"}, p \in HttpPayloads :
    Intercept(src, "openai", RequestBody, p, MaxAttrCalls)
\* a response from a host that is no provider
OtherResponse ==
  \E src \in {"fetch", "axios"} :
    Intercept(src, "none", RequestBody, UsagePayload, MaxAttrCalls)

AttrNext ==
  \/ ConsoleLog
  \/ HttpResponse
  \/ OtherResponse
  \/ RunContinuation
  \/ Reset
  \/ Disable

AttrSpec == AttrInit /\ [][AttrNext]_vars

\* shared mode, the store reachable, other processes incrementing the same
\* counter
StoreInit == InitWith(Limits, Modes, {TRUE})
StoreObserveCall ==
  \E src \in Sources, cost \in Costs : Observe(src, cost, MaxStoreCalls)
StoreForeign == \E cost \in Costs : ForeignIncrement(cost, MaxStoreCalls)
StoreAnswers == \E op \in redisOps : RedisReply(op, TRUE)

StoreNext ==
  \/ StoreObserveCall
  \/ StoreForeign
  \/ StoreAnswers
  \/ RunContinuation
  \/ ExitTimerFires

StoreSpec == StoreInit /\ [][StoreNext]_vars

\* init with and without the redis option, the connection made or refused
ConnInit ==
  /\ InitLedger(Limits, {"notify", "throw"})
  /\ InitStore(RedisConns)
  /\ InitPrices
ConnObserveCall ==
  \E src \in Sources, cost \in Costs : Observe(src, cost, MaxConnCalls)

ConnNext ==
  \/ ConnObserveCall
  \/ RunContinuation
  \/ StoreReply
  \/ Reset
  \/ ResetSettles

ConnSpec == ConnInit /\ [][ConnNext]_vars

\* a controller with or without a webhook, the POST delivered, refused or
\* left unanswered
HookObserveCall ==
  \E src \in Sources, cost \in Costs : Observe(src, cost, MaxHookCalls)
WebhookSettles == \E ok \in BOOLEAN : WebhookReply(ok)

HookNext ==
  \/ HookObserveCall
  \/ RunContinuation
  \/ WebhookSettles
  \/ Reset
  \/ ExitTimerFires

HookSpec == Init /\ [][HookNext]_vars

\* the price table: refreshes, the cache file, and calculateCost
Units == 0 .. MaxUnits
ModelIds == {"gpt-4", "claude-3-5-haiku", "unknown-model-xyz", "", "constructor"}
Cheaper == "gpt-4" :> Price(2000, 4000)
Newer == "unknown-model-xyz" :> Price(500, 700)
FetchResults == {NotFetched, Fetched(Cheaper), Fetched(Newer)}
Refreshes ==
  {Refresh(f1, f2, w) : f1 \in FetchResults, f2 \in FetchResults, w \in BOOLEAN}
CacheFiles ==
  {NoFs, Cache("none", EmptyPrices), Cache("corrupt", EmptyPrices),
   Cache("fresh", Cheaper), Cache("stale", Cheaper)}

\* init() has reached `await updatePrices()`
PriceInit ==
  /\ InitLedger({1000}, {"throw"})
  /\ InitStore({"none"})
  /\ priceCache \in CacheFiles
  /\ API_COSTS = InitialPrices
RefreshPrices == \E o \in Refreshes : UpdatePrices(o)
Calculate ==
  \E m \in ModelIds, i \in Units, o \in Units : ApplyCalculateCost(m, i, o)

PriceNext ==
  \/ RefreshPrices
  \/ CacheAges
  \/ Calculate

PriceSpec == PriceInit /\ [][PriceNext]_vars

\* ----------------------------------------------------------------- claims

StopCount == Len(stops)
WebhookCount == Cardinality({i \in DOMAIN stops : stops[i].webhook})

\* C1: within one session (init or the last reset up to the next reset) the
\* stop action and the webhook dispatch each run at most once, however many
\* evaluations see a total >= limit.
C1_TripAtMostOncePerSession == StopCount <= 1 /\ WebhookCount <= 1

\* a trip with a dispatched webhook was followed by another evaluation whose
\* total was >= limit
C1_Witness == StopCount = 1 /\ WebhookCount = 1 /\ crossings >= 2

\* reset() runs to completion (local mode), or settles after the store's reply
ResetCompletes == (Reset /\ ~redisClient) \/ ResetSettles

\* C2: after reset() on a tripped controller the total is 0, the tripped flag
\* is false, and the next evaluation with total >= limit fires a fresh trip.
C2_ResetRestoresActive ==
  /\ [][ResetCompletes => (totalCost' = 0 /\ isKilled' = FALSE)]_vars
  /\ [](crossings > 0 => StopCount > 0)

\* C3: in throw mode the AGENTGUARD_LIMIT_EXCEEDED error of the first
\* evaluation with total >= limit is raised to the caller of the
\* instrumented call, and the process keeps running.
C3_SoftErrorReachesCaller ==
  /\ \A i \in DOMAIN stops :
       stops[i].mode = "throw" =>
         /\ stops[i].error = "AGENTGUARD_LIMIT_EXCEEDED"
         /\ stops[i].sink = "caller"
  /\ (mode = "throw" /\ ~everReset /\ crossings > 0) => StopCount > 0

\* C4: in local mode the running total is the sum of all costs passed to
\* incrementBudget since the last reset, whatever the interleaving of the
\* continuations (at every state, so in particular once all have settled);
\* stated for a controller on which disable() has not zeroed the total.
C4_NoLostUpdate == (~redisClient /\ enabled) => totalCost = sumPassed

\* two increments of $5 in flight at the same time, total exactly $10
C4_Witness ==
  /\ ~redisClient /\ enabled
  /\ Len(microtasks) = 2
  /\ \A i \in DOMAIN microtasks : microtasks[i].cost = 500
  /\ totalCost = 1000

\* C5: from a fresh controller that was never reset, no stop action has fired
\* while every evaluated total was below the limit, and the stop action fires
\* at the first evaluation whose total is >= the limit of that moment.
C5_TripAtFirstCrossing == ~everReset => ((crossings > 0) <=> (StopCount > 0))

\* an evaluation below the limit, then a trip by a total equal to the limit
C5_Witness ==
  /\ ~everReset
  /\ StopCount = 1
  /\ stops[1].at = 2
  /\ stops[1].total = stops[1].limit

\* C6: after disable() an observed API-like payload is neither attributed nor
\* enforced: the total does not move and no continuation (log entry,
\* evaluation) is queued for it.
C6_DisableStopsAttribution ==
  [][(~enabled /\ (ObserveCall \/ ObserveBadFetch))
       => (totalCost' = totalCost /\ microtasks' = microtasks)]_vars

\* C7: in shared mode, once a store increment has failed, a warning has been
\* recorded, the cost is in the local total and getCost() is not null.
C7_FallbackTotalVisible ==
  storeFailed => (incrWarnings > 0 /\ getCost # {})

\* C8: in shared mode, after the first store failure of a session no later
\* increment goes to the store, and the warning is logged once per session.
C8_DegradesOncePerSession ==
  /\ incrWarnings <= 1
  /\ \A op \in redisOps : ~op.afterFailure

\* C9: in notify mode a trip raises no error and does not end the process,
\* and every observed call is still logged; with limit $10 and calls of $3
\* the one trip is at the 4th call, and 5 calls leave 5 log entries.
C9_NotifyContinues ==
  /\ \A i \in DOMAIN stops :
       stops[i].effects = {"continue"} /\ stops[i].error = "none"
  /\ ~exited /\ ~exitTimer /\ ~reloaded
  /\ Len(getLogs) + Len(microtasks) = calls
  /\ Len(getLogs) < 4 => StopCount = 0
  /\ Len(getLogs) >= 4 => (StopCount = 1 /\ stops[1].at = 4)
  /\ (calls = 5 /\ microtasks = <<>>) => (Len(getLogs) = 5 /\ totalCost = 1500)

\* five calls of $3 observed and settled against a limit of $10
C9_Witness ==
  /\ mode = "notify" /\ limit = 1000
  /\ calls = 5 /\ microtasks = <<>>
  /\ Len(getLogs) = 5
  /\ StopCount = 1 /\ stops[1].at = 4 /\ stops[1].total = 1200

\* what a kill-mode stop must do in the given runtime
KillOutcome(rt) ==
  IF rt.hasExit THEN "exit_timer"
  ELSE IF rt.hasWindow THEN "alert_reload"
  ELSE "throw_killed"

\* C10: in kill mode each trip has exactly one outcome: the process exit with
\* status 1 when an exit capability exists (and then the exit eventually
\* happens), else alert and page reload when a window exists, else an
\* AGENTGUARD_KILLED error.
C10_KillOutcome ==
  /\ [](\A i \in DOMAIN stops :
          stops[i].mode = "kill" =>
            /\ Cardinality(stops[i].effects) = 1
            /\ stops[i].effects = {KillOutcome(runtime)}
            /\ (stops[i].error = "AGENTGUARD_KILLED") <=> ~(runtime.hasExit \/ runtime.hasWindow)
            /\ (~runtime.hasExit /\ runtime.hasWindow) => reloaded)
  /\ [](exited => exitStatus = 1)
  /\ [](exitTimer => runtime.hasExit)
  /\ ((StopCount > 0 /\ runtime.hasExit) ~> (exited /\ exitStatus = 1))

\* the process has exited with status 1 after a kill-mode trip
C10_Witness ==
  /\ exited /\ exitStatus = 1
  /\ StopCount = 1 /\ stops[1].mode = "kill"

\* what the controller object h shows: getLimit(), the mode in force,
\* getCost(), getLogs() and whether the stop has fired.  Every controller
\* object is a set of closures over the variables of the one module.
ObservedThrough(h) == <<limit, mode, getCost, getLogs, isKilled>>

\* setLimit, setMode, reset or disable is invoked on the controller object c
OperationVia(c) ==
  /\ c \in 1 .. controllers
  /\ (ChangeLimit \/ ChangeMode \/ Reset \/ Disable)

\* C11: with two controllers obtained from two init() calls, setLimit,
\* setMode, reset and disable invoked on one of them leave the limit, mode,
\* total, call log and tripped status shown by the other unchanged.
C11_ControllersIndependent ==
  [][\A c \in 1 .. MaxControllers, h \in 1 .. MaxControllers :
       (c # h /\ h <= controllers /\ OperationVia(c))
         => ObservedThrough(h)' = ObservedThrough(h)]_vars

\* C12: the cost attributed to every observed payload is >= 0, also when its
\* usage block carries negative token counts, so every logged cost and
\* getCost() are >= 0 after any sequence of observed calls.
C12_CostNonNegative ==
  /\ lastCall.cost >= 0
  /\ \A i \in DOMAIN apiCallsLog : apiCallsLog[i].cost >= 0
  /\ \A c \in getCost : c >= 0

\* C13: the local running total never decreases under any operation other
\* than reset() (observed calls, setLimit, setMode, disable, updatePrices,
\* getLogs, getCost); reset() sets it to 0.
C13_TotalMonotone ==
  /\ [][~ResetCompletes => totalCost' >= totalCost]_vars
  /\ [][ResetCompletes => totalCost' = 0]_vars

\* C14: for every payload the interceptor completes without raising; a
\* payload it recognises is accounted (its cost added, its continuation
\* queued), any other leaves the ledger alone; and when the extraction
\* raises, the call is accounted with 50 input and 50 output units.
C14_AttributionNeverThrows ==
  [][calls' # calls =>
       /\ ~lastCall'.threw
       /\ lastCall'.recognised =>
            /\ totalCost' = totalCost + lastCall'.cost
            /\ microtasks' # <<>>
            /\ microtasks'[Len(microtasks')].cost = lastCall'.cost
       /\ ~lastCall'.recognised => UNCHANGED <<totalCost, microtasks>>
       /\ (lastCall'.recognised /\ TryExtract(lastCall'.payload).raised) =>
            /\ lastCall'.tokens = Tokens(50, 50)
            /\ Num(lastCall'.cost) = calculateCost(lastCall'.model, 50, 50)
            /\ lastCall'.cost > 0]_vars

\* handleAxiosResponse was given null: the call is logged with the cost of
\* 50 + 50 units of the provider's default model
C14_Witness ==
  /\ lastCall.src = "axios"
  /\ lastCall.payload.type = "null"
  /\ lastCall.tokens = Tokens(50, 50)
  /\ Len(apiCallsLog) = 1
  /\ apiCallsLog[1].cost = lastCall.cost
  /\ totalCost = lastCall.cost
  /\ totalCost > 0

\* C15: in shared mode with the store reachable, the total handed to the
\* evaluation of a call is the one the store's increment returned, the stop
\* action fires at an evaluation iff that total is >= limit and no stop has
\* fired yet, and the local counter plays no part (it stays 0).
C15_TripOnStoreTotal ==
  /\ [][\A op \in redisOps :
          (op.stage = "incr" /\ RedisReply(op, TRUE)) =>
            \E o \in redisOps' :
              o.id = op.id /\ o.stage = "expire" /\ o.newTotal = redisTotal']_vars
  /\ [][\A op \in redisOps :
          (op.stage = "expire" /\ op.role = "call" /\ RedisReply(op, TRUE)) =>
            /\ microtasks' # <<>>
            /\ microtasks'[Len(microtasks')].id = op.id
            /\ microtasks'[Len(microtasks')].newTotal = op.newTotal]_vars
  /\ [][RunContinuation =>
          /\ (StopCount' = StopCount + 1)
               <=> (Head(microtasks).newTotal >= limit /\ ~isKilled)
          /\ (StopCount' = StopCount + 1) =>
               stops'[StopCount'].total = Head(microtasks).newTotal
          /\ (StopCount' # StopCount + 1) => stops' = stops]_vars
  /\ [](redisClient /\ totalCost = 0)

\* the stop fired on a shared total of $5 while this process had observed
\* nothing but calls of $0 and its local counter was 0
C15_Witness ==
  /\ redisClient
  /\ StopCount = 1
  /\ stops[1].total = 500
  /\ stops[1].total >= stops[1].limit
  /\ totalCost = 0
  /\ \A i \in DOMAIN apiCallsLog : apiCallsLog[i].cost = 0

C17_ResetAlwaysClears ==
  /\ [][ResetCompletes =>
          /\ totalCost' = 0
          /\ apiCallsLog' = <<>>
          /\ resetResult' \in {"resolved", "warned"}]_vars
  /\ [][(Reset /\ redisClient) => resetPending']_vars
  /\ [][ResetReply(TRUE) => redisTotal' = 0]_vars
  /\ [][ResetReply(FALSE) =>
          (resetResult' = "warned" /\ redisTotal' = redisTotal)]_vars

\* the delete failed with $5 in the shared counter; reset() finished with a
\* warning, the local total and the log cleared
C17_Witness ==
  /\ redisClient
  /\ resetResult = "warned"
  /\ redisTotal = 500
  /\ totalCost = 0
  /\ apiCallsLog = <<>>
  /\ calls = 1

PostCount ==
  webhookPosts.inFlight + webhookPosts.delivered + webhookPosts.failed

C19_CostFormula ==
  [][Calculate =>
       LET p == IF input'.model \in DOMAIN API_COSTS
                  THEN API_COSTS[input'.model]
                  ELSE API_COSTS["default"]
       IN output' = Num(input'.inputTokens * p.input
                        + input'.outputTokens * p.output)]_vars

\* a step of the refresh o failed: the cache file could not be read, neither
\* download gave prices, or the cache file could not be written
RefreshFailed(cache, hasFetch, o) ==
  /\ hasFetch
  /\ \/ cache.state = "corrupt"
     \/ /\ cache.state \in {"none", "stale", "nofs"}
        /\ \/ ~o.first.fetched /\ ~o.second.fetched
           \/ cache.state # "nofs" /\ ~o.write

\* C20: a call of updatePrices() in which a step fails leaves the in-memory
\* price table as it was.
C20_FailedRefreshKeepsTable ==
  [][\A o \in Refreshes :
       (UpdatePrices(o) /\ RefreshFailed(priceCache, runtime.hasFetch, o))
         => API_COSTS' = API_COSTS]_vars

\* ------------------------------------------------- setters after init
\* a controller initialised with limit $10 and mode kill, whose limit and
\* mode are changed while calls are observed
SetterInit == InitWith({1000}, {"kill"}, {FALSE})
SetterObserveCall ==
  \E src \in Sources, cost \in Costs : Observe(src, cost, MaxSetterCalls)

SetterNext ==
  \/ SetterObserveCall
  \/ RunContinuation
  \/ ChangeLimit
  \/ ChangeMode
  \/ ExitTimerFires

SetterSpec == SetterInit /\ [][SetterNext]_vars

\* C21: setLimit(n) and setMode(m) are in force for every evaluation after
\* they return: getLimit() is n, an evaluation compares the returned total
\* with the limit of that moment, and a trip performs the action of the mode
\* of that moment, so that after init in kill mode a trip in notify mode
\* never arms the process exit.
C21_SettersTakeEffect ==
  /\ [][\A l \in Limits : SetLimit(l) => getLimit' = l]_vars
  /\ [][\A m \in Modes : SetMode(m) => mode' = m]_vars
  /\ [][RunContinuation =>
          /\ (crossings' = crossings + 1) <=> (Head(microtasks).newTotal >= getLimit)
          /\ (StopCount' = StopCount + 1)
               <=> (Head(microtasks).newTotal >= getLimit /\ ~isKilled)
          /\ (StopCount' = StopCount + 1) =>
               /\ stops'[StopCount'].limit = getLimit
               /\ stops'[StopCount'].mode = mode
               /\ stops'[StopCount'].effects = StopEffects(mode, runtime)
               /\ mode # "kill" => (exitTimer' = exitTimer /\ ~reloaded')]_vars
  /\ []((exitTimer \/ exited) => \E i \in DOMAIN stops : stops[i].mode = "kill")

\* init with limit $10 and kill, then setLimit($5) and setMode('notify'): a
\* total of $5 tripped, and the process with an exit capability lives on
C21_Witness ==
  /\ runtime.hasExit
  /\ StopCount = 1
  /\ stops[1].mode = "notify"
  /\ stops[1].limit = 500 /\ stops[1].total = 500
  /\ getLimit = 500
  /\ microtasks = <<>>
  /\ ~exitTimer /\ ~exited

\* C22: an init() call whose options omit limit yields a controller whose
\* getLimit() is the default $10, also after earlier init() or setLimit()
\* calls with other limits (and likewise the mode is the default 'throw'
\* when omitted).
C22_OmittedOptionsDefault ==
  [][\A opts \in InitOptions :
       InitAgain(opts) =>
         /\ opts.limit = {} => getLimit' = DefaultLimit
         /\ opts.mode = {} => mode' = "throw"]_vars

\* ------------------------------------------ limits that are not validated
\* init({limit: 0}), init({limit: -10}), init({limit: Infinity}), in units
\* of 10^-8 dollars
InvalidLimits == {0, -1000000000, Infinity}
ZeroPayload ==
  Obj({"gpt-3.5-turbo"}, {Usage({0}, {}, {0}, {})}, NoChoices, NoText, Str(1, 74))
LimitInit == InitWith(InvalidLimits, {"notify"}, {FALSE})
LimitLog ==
  \E p \in {ZeroPayload, UsagePayload, NegativePayload} :
    Intercept("console", "none", NoPayload, p, MaxLimitCalls)
LimitResponse ==
  \E src \in {"fetch", "axios"}, p \in {ZeroPayload, UsagePayload} :
    Intercept(src, "openai", RequestBody, p, MaxLimitCalls)

LimitNext ==
  \/ LimitLog
  \/ LimitResponse
  \/ RunContinuation

LimitSpec == LimitInit /\ [][LimitNext]_vars

\* C23: init() takes any numeric limit as it is (0, negative, Infinity) and
\* getLimit() returns it; with a limit <= 0 the first evaluated call trips,
\* even at cost 0, and with limit Infinity no call ever trips.
C23_UnvalidatedLimits ==
  /\ getLimit \in InvalidLimits
  /\ (getLimit <= 0 /\ Len(apiCallsLog) >= 1) =>
       (StopCount = 1 /\ stops[1].at = 1)
  /\ getLimit = Infinity => (StopCount = 0 /\ crossings = 0)

\* ------------------------------------------------ arrays getLogs returns
\* [...apiCallsLog]: the array the caller is handed, and its elements when
\* it is an array of its own
SpreadCopy_sameArray(log) == [array |-> "apiCallsLog", items |-> <<>>]
SpreadCopy(log) == [array |-> "new", items |-> log]

\* the caller holds an array returned by getLogs()
Holding == input = <<"getLogs">>

\* the elements of the array the caller holds
Held == IF output.array = "new" THEN output.items ELSE apiCallsLog

\* getLogs() is called and its result kept
GetLogs ==
  /\ Running
  /\ input' = <<"getLogs">>
  /\ output' = SpreadCopy(apiCallsLog)
  /\ UNCHANGED <<ledgerVars, storeVars, controllers, priceVars, webhookPosts,
                 resetResult, lastCall>>

\* what push, pop and length = 0 make of an array
ArrayOps == {"push", "pop", "truncate"}
Mutated(items, how) ==
  IF how = "push" THEN Append(items, [cost |-> 0, source |-> "caller"])
  ELSE IF how = "pop" THEN SubSeq(items, 1, Len(items) - 1)
  ELSE <<>>

\* the caller changes the array it holds
CallerMutates(how) ==
  /\ Running
  /\ Holding
  /\ how = "push" => Len(Held) <= MaxCopyCalls
  /\ how = "pop" => Held # <<>>
  /\ IF output.array = "new"
       THEN /\ output' = [output EXCEPT !.items = Mutated(output.items, how)]
            /\ UNCHANGED apiCallsLog
       ELSE /\ apiCallsLog' = Mutated(apiCallsLog, how)
            /\ UNCHANGED output
  /\ UNCHANGED <<configVars, totalCost, isKilled, redisTotal, redisOps,
                 microtasks, resetPending, exitVars, calls, sumPassed,
                 sessionVars, storeVars, controllers, priceVars, webhookPosts,
                 resetResult, lastCall, input>>

CopyInit == InitWith({1000}, {"notify"}, {FALSE})
CopyObserveCall ==
  \E src \in Sources, cost \in Costs : Observe(src, cost, MaxCopyCalls)
CallerChanges == \E how \in ArrayOps : CallerMutates(how)

CopyNext ==
  \/ CopyObserveCall
  \/ RunContinuation
  \/ Reset
  \/ GetLogs
  \/ CallerChanges

CopySpec == CopyInit /\ [][CopyNext]_vars

\* C24: getLogs() returns a point-in-time copy: it has the entries of the
\* log at the call; pushing to, popping from or truncating a returned array
\* changes nothing of what getLogs() returns afterwards; and entries
\* appended or a reset performed later leave a returned array as it was.
C24_GetLogsCopies ==
  /\ [][GetLogs => (Held' = getLogs /\ getLogs' = getLogs)]_vars
  /\ [][CallerChanges => getLogs' = getLogs]_vars
  /\ [][(Holding /\ (CopyObserveCall \/ RunContinuation \/ Reset))
          => Held' = Held]_vars

\* an array returned with one entry still has it after a reset emptied the
\* log
C24_Witness ==
  /\ Holding
  /\ Len(Held) = 1
  /\ Held[1].source # "caller"
  /\ everReset
  /\ getLogs = <<>>

\* ------------------------------------------------------ call-log entries
\* a string constant of the source, and a property an entry does not have
Literal(str) == [kind |-> str, words |-> 0, chars |-> 0, items |-> <<>>]
Redacted == Literal("[REDACTED]")
AbsentField == Literal("undefined")

\* config.privacy ? '[REDACTED]'
\*   : (arg.choices?.[0]?.message?.content || arg.content || '[no content]')
EntryContent_unredacted(arg, priv) ==
  IF arg.choices.kind = "message" /\ TruthyText(arg.choices.content)
    THEN arg.choices.content
  ELSE IF TruthyText(arg.content) THEN arg.content
  ELSE Literal("[no content]")
EntryContent(arg, priv) ==
  IF priv THEN Redacted
  ELSE IF arg.choices.kind = "message" /\ TruthyText(arg.choices.content)
    THEN arg.choices.content
  ELSE IF TruthyText(arg.content) THEN arg.content
  ELSE Literal("[no content]")

\* the object pushed to apiCallsLog, less its timestamp: the console
\* interceptor's has source and content, the HTTP wrappers' has the url
LogEntry(src, provider, a, arg, priv) ==
  [model |-> a.model, cost |-> a.cost, tokens |-> a.tokens,
   source |-> IF src = "console" THEN Literal("console") ELSE AbsentField,
   content |-> IF src = "console" THEN EntryContent(arg, priv) ELSE AbsentField,
   url |-> IF src = "console" THEN AbsentField ELSE Literal(provider)]

\* the entries the log gains when the interceptor of src is given p: one
\* when p is recognised, none otherwise
EntriesFor(src, provider, req, p, priv) ==
  IF Recognises(src, provider, p)
    THEN {LogEntry(src, provider, Attribution(src, provider, req, p), p, priv)}
    ELSE {}

\* two runs side by side from the state after init: the same interceptor
\* under the same configuration is given p in one and q in the other
LogBoth(src, provider, req, p, q, priv) ==
  /\ Running
  /\ output = <<>>
  /\ input' = [src |-> src, privacy |-> priv, first |-> p, second |-> q]
  /\ output' = <<EntriesFor(src, provider, req, p, priv),
                 EntriesFor(src, provider, req, q, priv)>>
  /\ UNCHANGED <<ledgerVars, storeVars, controllers, priceVars, webhookPosts,
                 resetResult, lastCall>>

\* payloads with and without a usage block, a message and a content text
Texts == {NoText, Str(2, 13), Str(5, 40)}
UsageBlocks == {{}, {Usage({0}, {}, {0}, {})}, {Usage({10}, {}, {20}, {})}}
PrivacyPayloads ==
  { Obj(m, u, c, t, Str(1, 30 + c.content.chars + t.chars)) :
      m \in {{}, {"gpt-4"}}, u \in UsageBlocks,
      c \in {NoChoices} \cup {Choices("message", x) : x \in Texts \ {NoText}},
      t \in Texts }

PrivacyInit == InitWith({1000}, {"notify"}, {FALSE})
LogPair ==
  /\ output = <<>>
  /\ \E src \in Sources, p \in PrivacyPayloads, q \in PrivacyPayloads,
        priv \in BOOLEAN :
       LogBoth(src, IF src = "console" THEN "none" ELSE "openai", RequestBody,
               p, q, priv)

PrivacyNext ==
  \/ LogPair

PrivacySpec == PrivacyInit /\ [][PrivacyNext]_vars

\* p and q differ at most in their message text and content text (and so
\* in their serialisation): same model, same usage block or none in both
SameButText(p, q) ==
  /\ p.type = q.type /\ p.model = q.model /\ p.circular = q.circular
  /\ p.choices.kind = q.choices.kind
  /\ p.usage = q.usage

\* with privacy on, the content field of a console entry is '[REDACTED]', and
\* an HTTP entry has none
ContentRedacted ==
  \A i \in 1 .. 2 : \A e \in output[i] :
    e.content = IF input.src = "console" THEN Redacted ELSE AbsentField

\* C25: with privacy on no log entry holds payload content, and two payloads
\* with the same model and usage counts that differ only in their
\* message/content text leave the same entry (timestamp apart).
C25_PrivacyRedactsLog ==
  (Len(output) = 2 /\ input.privacy) =>
    /\ ContentRedacted
    /\ SameButText(input.first, input.second) => output[1] = output[2]

\* C25, amended: with privacy on no log entry holds payload content, and two
\* payloads that carry the same usage block and the same model and differ
\* only in their message/content text leave the same entry (timestamp
\* apart); without a usage block the token counts and the cost of the entry
\* are estimated from the text.
C25_PrivacyRedactsLogGivenUsage ==
  (Len(output) = 2 /\ input.privacy) =>
    /\ ContentRedacted
    /\ (SameButText(input.first, input.second) /\ input.first.usage # {})
         => output[1] = output[2]

\* two console payloads with the same usage block and different message
\* and content texts have left the same redacted entry
C25_Witness ==
  /\ Len(output) = 2
  /\ input.privacy /\ input.src = "console"
  /\ SameButText(input.first, input.second)
  /\ input.first.usage # {}
  /\ input.first.choices.kind = "message"
  /\ input.first.choices.content # input.second.choices.content
  /\ input.first.content # input.second.content
  /\ output[1] = output[2]
  /\ \E e \in output[1] : e.content = Redacted /\ e.tokens = Tokens(10, 20)

\* C26: in local mode, whenever no increment is in flight and the local
\* total is >= the limit in force, the trip has fired in the current
\* session, whichever way the total grew (attributed calls of the three
\* paths, the flat $0.01 of an unprocessable response) and also after
\* setLimit lowered the limit.
C26_EnforcementInvariant ==
  (~redisClient /\ microtasks = <<>> /\ totalCost >= getLimit) => StopCount > 0

\* ------------------------------------------------- calls around a reset
\* payloads are observed up to the first reset() and none after it
SessionObserveCall ==
  /\ ~everReset
  /\ \E src \in Sources, cost \in Costs : Observe(src, cost, MaxSessionCalls)

SessionNext ==
  \/ SessionObserveCall
  \/ RunContinuation
  \/ Reset

SessionSpec == Init /\ [][SessionNext]_vars

\* C27: once reset() has returned, the completions of calls observed before
\* it append nothing to the log and fire no trip: with no payload observed
\* after the reset, getLogs() stays empty, the total stays 0 and no stop
\* action runs.
C27_ResetSeparatesSessions ==
  everReset => (getLogs = <<>> /\ totalCost = 0 /\ StopCount = 0)

\* the sum of the cost fields of the entries of a log
RECURSIVE SumCosts(_)
SumCosts(log) ==
  IF log = <<>> THEN 0 ELSE Head(log).cost + SumCosts(Tail(log))

\* C28: in local mode, whenever no increment is in flight, getCost() is the
\* sum of the cost fields of the entries getLogs() returns, after any
\* sequence of observed calls, trips in any mode, resets and disables.
C28_LedgerMatchesLog ==
  (~redisClient /\ microtasks = <<>>) => getCost = {SumCosts(getLogs)}

\* C29: in shared mode every attributed cost is added to exactly one ledger,
\* the store's counter or the local counter, never both and never neither,
\* whether the store's increment and expire succeed or fail.
C29_ExactlyOneLedger ==
  [][\A op \in redisOps, ok \in BOOLEAN :
       RedisReply(op, ok) =>
         LET toStore == IF op.stage = "expire" THEN op.cost
                        ELSE redisTotal' - redisTotal
             toLocal == totalCost' - totalCost
         IN IF op.stage = "incr" /\ ok
              THEN toStore = op.cost /\ toLocal = 0
              ELSE toStore + toLocal = op.cost]_vars

\* C30: the cost reported when a trip fires (the cost field of the webhook
\* payload, totalCost of the error data in throw mode) is the running total
\* that caused the trip, and so is >= the limit reported next to it, in
\* shared mode as in local mode.
C30_ReportedCostIsTripTotal ==
  \A i \in DOMAIN stops :
    (stops[i].webhook \/ stops[i].mode = "throw") =>
      /\ stops[i].reportedCost = stops[i].total
      /\ stops[i].reportedCost >= stops[i].limit

\* -------------------------------------------------- the wrappers of fetch
\* interceptFetch: global.fetch (node) or window.fetch (browser) is replaced
\* by wrapFetch of itself, and then globalThis.fetch, which is the same
\* property, once more
WrapsPerInit(rt) == IF rt.hasFetch THEN 2 ELSE 0

\* the wrappers around the native fetch: every init() that got past its
\* `enabled` test has run interceptFetch
FetchWrappers == controllers * WrapsPerInit(runtime)

\* the continuations of the wrappers of one fetch call, innermost first:
\* each has added the cost to the total it found
WrapperTasks(id, cost, total, depth) ==
  [i \in 1 .. depth |->
     [id |-> id, src |-> "fetch", cost |-> cost,
      newTotal |-> total + i * cost]]

\* fetch(url) to a provider whose response parses, in local mode: each
\* wrapper awaits the one it wraps, then reads its clone of the response,
\* calls incrementBudget(cost), logs and evaluates
FetchThroughWrappers(cost, maxc) ==
  /\ Running
  /\ ~redisClient
  /\ runtime.hasFetch
  /\ calls < maxc
  /\ calls' = calls + 1
  /\ totalCost' = totalCost + FetchWrappers * cost
  /\ sumPassed' = sumPassed + FetchWrappers * cost
  /\ microtasks' =
       microtasks \o WrapperTasks(calls + 1, cost, totalCost, FetchWrappers)
  /\ UNCHANGED <<configVars, isKilled, apiCallsLog, redisTotal, redisOps,
                 resetPending, exitVars, sessionVars, frameVars, webhookPosts,
                 resetResult, lastCall>>

\* init() is called k >= 1 times, then fetch calls of $1 are made: limit
\* $10, mode notify
WrapInit == InitWith({1000}, {"notify"}, {FALSE})
WrapFetchCall == FetchThroughWrappers(100, MaxWrapCalls)

WrapNext ==
  \/ SecondInit
  \/ WrapFetchCall
  \/ RunContinuation

WrapSpec == WrapInit /\ [][WrapNext]_vars

\* C31: after any number k >= 1 of init() calls, one fetch call to a
\* provider URL whose response parses causes exactly one budget increment
\* and exactly one call-log entry.
C31_FetchAttributedOnce ==
  /\ [][WrapFetchCall =>
          /\ totalCost' = totalCost + 100
          /\ Len(microtasks') = Len(microtasks) + 1]_vars
  /\ [](Len(apiCallsLog) + Len(microtasks) = calls)

\* ------------------------------------------------ the order of the log
\* the k-th payload observed costs k cents, so that an entry of the log
\* tells which call it belongs to; limit 2 cents or $10
OrderInit == InitWith({2, 1000}, Modes, {FALSE})
OrderObserveCall ==
  \E src \in Sources : Observe(src, calls + 1, MaxOrderCalls)

OrderNext ==
  \/ OrderObserveCall
  \/ RunContinuation
  \/ Reset
  \/ Disable

OrderSpec == OrderInit /\ [][OrderNext]_vars

\* C32: in local mode the entries of the call log are in the order in
\* which their payloads were observed, whichever way the completions of the
\* increments interleave with later observations, resets and disables; the
\* calls still in flight are later ones and complete in that order too.
C32_LogInObservationOrder ==
  /\ \A i, j \in DOMAIN apiCallsLog :
       i < j => apiCallsLog[i].cost < apiCallsLog[j].cost
  /\ \A i \in DOMAIN apiCallsLog, j \in DOMAIN microtasks :
       apiCallsLog[i].cost < microtasks[j].cost
  /\ \A i, j \in DOMAIN microtasks :
       i < j => microtasks[i].cost < microtasks[j].cost

\* three calls of three interception points logged in the order observed,
\* the second observed while the first was still in flight
C32_Witness ==
  /\ Len(apiCallsLog) = 3
  /\ apiCallsLog[1].source = "axios"
  /\ apiCallsLog[2].source = "console"
  /\ apiCallsLog[3].source = "fetch"
  /\ totalCost >= 6

\* one entry is pushed to the log and the others stay as they are
OneAppended ==
  /\ Len(apiCallsLog') = Len(apiCallsLog) + 1
  /\ SubSeq(apiCallsLog', 1, Len(apiCallsLog)) = apiCallsLog

\* C33: the call log is append-only: every step leaves it alone or pushes
\* one entry, except reset(), the only operation that deletes entries, which
\* clears the whole log.
C33_LogAppendOnly ==
  /\ [][\/ apiCallsLog' = apiCallsLog
        \/ OneAppended
        \/ ResetCompletes /\ apiCallsLog' = <<>>]_vars
  /\ [][ResetCompletes => apiCallsLog' = <<>>]_vars

\* C33, amended: the call log is append-only: every step leaves it alone or
\* pushes one entry, except reset() and disable(), the only operations that
\* delete entries, each of which clears the whole log.
C33_LogAppendOnlyButResetDisable ==
  /\ [][\/ apiCallsLog' = apiCallsLog
        \/ OneAppended
        \/ (ResetCompletes \/ Disable) /\ apiCallsLog' = <<>>]_vars
  /\ [][(ResetCompletes \/ Disable) => apiCallsLog' = <<>>]_vars

\* two calls of $5 were logged, then disable() emptied the log; no reset
C33_Witness ==
  /\ ~enabled /\ ~everReset
  /\ calls = 2 /\ sumPassed = 1000
  /\ microtasks = <<>>
  /\ apiCallsLog = <<>>

\* C34: unit extraction takes the first matching case in the order usage
\* block, streaming delta, content array, message, opaque fallback: a payload
\* with a usage block gets the counts of the block whatever else it holds, a
\* streaming delta chunk gets 0 input units, and the extracted units are
\* non-negative in every case.
C34_ExtractionOrder ==
  lastCall.recognised =>
    LET p == lastCall.payload
        t == lastCall.tokens
    IN /\ (p.type = "object" /\ p.usage # {}) => t = UsageTokens(Val(p.usage))
       /\ (p.type = "object" /\ p.usage = {} /\ p.choices.kind = "delta")
            => t.input = 0
       /\ t.input >= 0 /\ t.output >= 0

\* C35: on every interception path the model that prices a call is the
\* model field of the observed response payload if it has one, else the
\* default of the provider the URL names (gpt-3.5-turbo for openai.com), else
\* 'default' (the console path has no URL).
C35_ModelResolution ==
  lastCall.recognised =>
    lastCall.model =
      ModelOr(lastCall.payload,
              IF lastCall.src = "console" THEN "default" ELSE "gpt-3.5-turbo")

\* what console.log hands to original.log for an argument: with privacy on,
\* an object with a truthy choices or content is replaced by a copy whose
\* choices and content are '[REDACTED]'; anything else is passed as it is
ForwardedArg(arg, priv) ==
  IF /\ priv
     /\ arg.type \in {"object", "array"}
     /\ (arg.choices.kind # "absent" \/ TruthyText(arg.content))
    THEN [arg EXCEPT !.choices = Choices("[REDACTED]", NoText),
                     !.content = Literal("[REDACTED]")]
    ELSE arg

\* p is no non-null object with a truthy choices, content or usage
NotApiLike(p) ==
  \/ p.type \notin {"object", "array"}
  \/ p.choices.kind = "absent" /\ ~TruthyText(p.content) /\ p.usage = {}

\* C36: console.log of a value that is no non-null object with a truthy
\* choices, content or usage leaves the total, the call log, the pending
\* continuations and the tripped flag as they were, raises nothing, and
\* hands the value unchanged to the original logger (privacy on or off).
C36_NonApiPayloadNoOp ==
  [][(calls' # calls /\ lastCall'.src = "console"
        /\ NotApiLike(lastCall'.payload)) =>
       /\ UNCHANGED <<totalCost, apiCallsLog, microtasks, isKilled, redisOps>>
       /\ ~lastCall'.threw
       /\ \A priv \in BOOLEAN :
            ForwardedArg(lastCall'.payload, priv) = lastCall'.payload]_vars

\* console.log({}) was passed through: nothing attributed, nothing queued
C36_Witness ==
  /\ lastCall.src = "console"
  /\ lastCall.payload.type = "object"
  /\ NotApiLike(lastCall.payload)
  /\ calls = 1
  /\ totalCost = 0 /\ apiCallsLog = <<>> /\ microtasks = <<>> /\ ~isKilled

\* the first half of C37: a successful INCRBYFLOAT leaves the call waiting
\* for its EXPIRE, and the store's total is handed to the evaluation only by
\* the successful EXPIRE, which leaves a present key with 86400 seconds
ExpireFollowsIncrement ==
  /\ [][\A op \in redisOps :
          (op.stage = "incr" /\ RedisReply(op, TRUE)) =>
            \E o \in redisOps' : o.id = op.id /\ o.stage = "expire"]_vars
  /\ [][\A op \in redisOps :
          (op.stage = "expire" /\ op.role = "call" /\ RedisReply(op, TRUE)) =>
            /\ redisKey'.exists => redisKey'.ttl = {Ttl}
            /\ microtasks' # <<>>
            /\ microtasks'[Len(microtasks')].newTotal = op.newTotal]_vars

\* C37: in shared mode every successful increment of the budget key is
\* followed, before the new total is returned for evaluation, by setting
\* the key's time to live to 86400 seconds: once no incrementBudget call
\* stands between its increment and its expire, a budget key that exists
\* has a time to live of 86400 seconds.
C37_KeyHasTtl ==
  (redisClient /\ \A op \in redisOps : op.stage # "expire") =>
    (redisKey.exists => redisKey.ttl = {Ttl})

\* --------------------------------------------------- mode values accepted

MaxModeCalls == 2

\* `config = { ...config, ...options }` and `config.mode = newMode` store
\* whatever they are given: besides the three modes emergencyStop knows, a
\* string it has no branch for
AcceptedModes == Modes \cup {"pause"}

ModeInit == InitWith({2, 1000}, AcceptedModes, {FALSE})
ModeObserveCall ==
  \E src \in Sources, cost \in Costs : Observe(src, cost, MaxModeCalls)
AcceptMode == \E m \in AcceptedModes : SetMode(m)

ModeNext ==
  \/ ModeObserveCall
  \/ RunContinuation
  \/ AcceptMode
  \/ ExitTimerFires

ModeSpec == ModeInit /\ [][ModeNext]_vars

\* C38: every trip performs exactly one of the three stop actions (raise a
\* catchable error, terminate the process, log and continue), whatever mode
\* value init() or setMode() accepted: no trip sets isKilled and does none.
C38_TripActsOnce ==
  \A i \in DOMAIN stops :
    /\ Cardinality(stops[i].effects) = 1
    /\ stops[i].effects \subseteq
         {"continue", "throw_limit", "throw_killed", "exit_timer", "alert_reload"}

\* ------------------------------------------- every observed call accounted

MaxTrackCalls == 2

\* console.log of API-like payloads, with and without a store; promise
\* reactions are run by the event loop as long as the process lives, and
\* every store operation issued is answered, with a result or an error
TrackInit == InitWith({500}, Modes, {FALSE, TRUE})
TrackObserveCall == \E cost \in Costs : Observe("console", cost, MaxTrackCalls)

TrackNext ==
  \/ TrackObserveCall
  \/ RunContinuation
  \/ StoreReply
  \/ ExitTimerFires

TrackSpec ==
  TrackInit /\ [][TrackNext]_vars /\ WF_vars(RunContinuation) /\ WF_vars(StoreReply)

\* call id was observed and its continuation has not run: incrementBudget
\* awaits the store, or the continuation is queued
Unaccounted(id) ==
  \/ \E op \in redisOps : op.id = id /\ op.role = "call"
  \/ \E i \in DOMAIN microtasks : microtasks[i].id = id

\* a call leaves the unaccounted ones only by its continuation, which
\* appends its entry and compares its total with the limit
AccountedByContinuation ==
  [][\A id \in 1 .. MaxTrackCalls :
       (Unaccounted(id) /\ ~Unaccounted(id)') =>
         /\ microtasks # <<>> /\ Head(microtasks).id = id
         /\ apiCallsLog' = Append(apiCallsLog,
              [cost |-> Head(microtasks).cost, source |-> "console"])
         /\ (crossings' = crossings + 1) <=> (Head(microtasks).newTotal >= limit)
         /\ (Head(microtasks).newTotal >= limit /\ ~isKilled) =>
              StopCount' = StopCount + 1]_vars

MaxTextLen == 5

\* strings of letters and blanks, as sequences of characters
TextChars == {"a", " "}
Strings(n) == UNION {[1 .. k -> TextChars] : k \in 0 .. n}

\* text.split(/\s+/).length: the pieces between the runs of blanks, the empty
\* piece before a leading and after a trailing run included
RECURSIVE BlankRuns(_)
BlankRuns(s) ==
  IF s = <<>> THEN 0
  ELSE LET rest == Tail(s)
       IN IF Head(s) = " " /\ (rest = <<>> \/ Head(rest) # " ")
            THEN 1 + BlankRuns(rest)
            ELSE BlankRuns(rest)
SplitLength(s) == 1 + BlankRuns(s)

\* the string s as an argument of estimateTokens
StringValue(s) == Str(SplitLength(s), Len(s))

\* s grown at its end into t
Grown(s, t) == Len(s) <= Len(t) /\ SubSeq(t, 1, Len(s)) = s

\* estimateTokens is applied to a text and to the text grown (undefined and
\* a value that is no string stand for themselves)
EstimateBoth(text, longer) ==
  /\ input' = [text |-> text, longer |-> longer]
  /\ output' = <<estimateTokens(text), estimateTokens(longer)>>
  /\ UNCHANGED <<ledgerVars, storeVars, controllers, priceVars, webhookPosts,
                 resetResult, lastCall>>

EstInit == InitWith({1000}, {"notify"}, {FALSE})
EstimateStrings ==
  /\ output = <<>>
  /\ \E s \in Strings(MaxTextLen), t \in Strings(MaxTextLen) :
       Grown(s, t) /\ EstimateBoth(StringValue(s), StringValue(t))
EstimateOthers ==
  /\ output = <<>>
  /\ \E v \in {NoText, OtherValue} : EstimateBoth(v, v)

EstNext ==
  \/ EstimateStrings
  \/ EstimateOthers

EstSpec == EstInit /\ [][EstNext]_vars

\* C40: the fallback estimator never throws, whatever value it is given,
\* returns 0 for empty or undefined text, returns
\* ceil(wordCount * 1.3 + charCount * 0.25) for non-empty text, and does not
\* decrease when a text grows in length.
C40_FallbackEstimator ==
  Len(output) = 2 =>
    LET t == input.text
        e == output[1]
        exact == 26 * t.words + 5 * t.chars
    IN /\ ~e.raised /\ ~output[2].raised
       /\ (t.kind = "absent" \/ (t.kind = "string" /\ t.chars = 0)) => e.n = 0
       /\ (t.kind = "string" /\ t.chars > 0) =>
            (20 * e.n >= exact /\ 20 * (e.n - 1) < exact)
       /\ e.n <= output[2].n

====
